---- MODULE Spec2Model ----
(***************************************************************************)
(* Worker of custom-metrics-lab (app/worker/main.go): the Pub/Sub receive  *)
(* callback, the shared globalState guarded by an RWMutex, the exported    *)
(* Prometheus gauge numJobs and the metricUpdater goroutine that zeroes    *)
(* the gauge when the last job is stale.                                   *)
(*                                                                         *)
(* Time is in seconds.  The clock advances in steps of the ticker period   *)
(* (10 s); every advance puts one tick on ticker.C.  Straight-line code    *)
(* between two blocking calls takes no time but interleaves freely with    *)
(* the other goroutines: the clock advances only while the callback is     *)
(* absent or sleeping inside simulateWork and the updater waits on         *)
(* ticker.C.                                                               *)
(*                                                                         *)
(* Spec is the worker from process start; LiveSpec is the worker left to   *)
(* run under fair scheduling with no signal; PubSpec is the publisher      *)
(* (app/publisher/main.go), a separate program run on its own.             *)
(*                                                                         *)
(* Strings are sequences of one-character strings.  float64 values are     *)
(* integers: the attribute strings used here spell signed decimal          *)
(* integers or are not numbers at all.                                     *)
(***************************************************************************)
EXTENDS Integers, Sequences, FiniteSets, TLC

VARIABLES
    env,            \* the worker's environment: a set of <<name, value>> pairs
    proc,           \* main's position at startup, then "running"; "fatal"
                    \* after log.Fatal, "exited" after a signal
    serverUp,       \* the goroutine serving /metrics has been started
    updaterUp,      \* the goroutine running metricUpdater has been started
    now,            \* wall clock, seconds since process start
    tickPending,    \* a tick is buffered on ticker.C
    jobDuration,    \* main's jobDuration, seconds
    lastJobTime,    \* state.lastJobTime
    metricValue,    \* state.metricValue
    metricTimeout,  \* state.metricTimeout, seconds
    mu,             \* state.mu: [writer: 0 or the locking callback, readers: set]
    numJobs,        \* the value held by the exported gauge numJobs
    pc,             \* pc[m]: position of the receive callback of message m
    attrs,          \* attrs[m]: msg.Attributes of message m
    jobVal,         \* jobVal[m]: the callback's local jobVal
    startTime,      \* startTime[m]: simulateWork's local startTime
    dpc,            \* position of the metricUpdater goroutine
    lastJob,        \* metricUpdater's local lastJob
    timeout,        \* metricUpdater's local timeout
    scraped,        \* value rendered by the last /metrics scrape
    log,            \* history: the callbacks' events <<event, message>> so far
    ppc,            \* the publisher: main's position, "off" when it is not run
    args,           \* the publisher's os.Args[1:]
    topic,          \* the messages handed to topic.Publish, in order
    batch,          \* publishBatch's parameters [numJobs, workDuration]
    idx,            \* publishBatch's loop variable i
    scenario        \* runAutoMode: number of scenarios completed

bootVars == <<env, serverUp, updaterUp>>

pubVars == <<ppc, args, topic, batch, idx, scenario>>

vars == <<bootVars, pubVars, proc, now, tickPending, jobDuration, lastJobTime, metricValue,
          metricTimeout, mu, numJobs, pc, attrs, jobVal, startTime, dpc,
          lastJob, timeout, scraped, log>>

----------------------------------------------------------------------------
(* Bounds of the model *)

MaxMsgs == 2
MaxTicks == 5
MaxBatch == 3

Msgs == 1..MaxMsgs

----------------------------------------------------------------------------
(* Program constants *)

MaxOutstandingMessages == 1
TickerPeriodSec == 10
DefaultJobVal == 1

DefaultJobDurationSec == <<"9", "0">>
DefaultMetricTimeoutSec == <<"1", "2", "0">>

----------------------------------------------------------------------------
(* strconv: decimal parsing over strings of digits, signs and letters *)

DigitChars == <<"0", "1", "2", "3", "4", "5", "6", "7", "8", "9">>

IsDigit(c) == \E i \in 1..10 : DigitChars[i] = c

DigitVal(c) == (CHOOSE i \in 1..10 : DigitChars[i] = c) - 1

RECURSIVE DigitsVal(_)
DigitsVal(s) ==
    IF s = <<>> THEN 0
    ELSE DigitsVal(SubSeq(s, 1, Len(s) - 1)) * 10 + DigitVal(s[Len(s)])

HasSign(s) == s # <<>> /\ s[1] \in {"+", "-"}

Mantissa(s) == IF HasSign(s) THEN Tail(s) ELSE s

SyntaxOK(s) ==
    /\ Mantissa(s) # <<>>
    /\ \A i \in 1..Len(Mantissa(s)) : IsDigit(Mantissa(s)[i])

Signed(s) ==
    IF s[1] = "-" THEN 0 - DigitsVal(Mantissa(s)) ELSE DigitsVal(Mantissa(s))

\* strconv.ParseFloat(s, 64): the value and whether err # nil
ParseFloat(s) ==
    IF SyntaxOK(s) THEN [val |-> Signed(s), err |-> FALSE]
    ELSE [val |-> 0, err |-> TRUE]

\* strconv.Atoi(s): the value and whether err # nil
Atoi(s) ==
    IF SyntaxOK(s) THEN [val |-> Signed(s), err |-> FALSE]
    ELSE [val |-> 0, err |-> TRUE]

----------------------------------------------------------------------------
(* Inputs *)

\* the process environment: a set of <<name, value>> pairs
EnvChoices ==
    { { <<"PROJECT_ID", <<"p">> >>, <<"SUBSCRIPTION_ID", <<"s">> >>,
        <<"JOB_DURATION_SEC", <<"1", "0">> >>,
        <<"METRIC_TIMEOUT_SEC", <<"2", "0">> >> },
      { <<"PROJECT_ID", <<"p">> >>, <<"SUBSCRIPTION_ID", <<"s">> >>,
        <<"JOB_DURATION_SEC", <<"3", "0">> >>,
        <<"METRIC_TIMEOUT_SEC", <<"2", "0">> >> },
      { <<"PROJECT_ID", <<"p">> >>, <<"SUBSCRIPTION_ID", <<"s">> >>,
        <<"JOB_DURATION_SEC", <<"1", "0">> >> },
      { <<"PROJECT_ID", <<"p">> >>, <<"SUBSCRIPTION_ID", <<"s">> >>,
        <<"JOB_DURATION_SEC", <<"3", "0">> >>,
        <<"METRIC_TIMEOUT_SEC", <<"a", "b", "c">> >> },
      { <<"SUBSCRIPTION_ID", <<"s">> >>,
        <<"JOB_DURATION_SEC", <<"1", "0">> >> },
      { <<"PROJECT_ID", <<"p">> >>, <<"SUBSCRIPTION_ID", << >> >> } }

\* msg.Attributes: a set of <<key, value>> pairs
AttrChoices ==
    { { },
      { <<"numJobs", << >> >> },
      { <<"numJobs", <<"a", "b", "c">> >> },
      { <<"numJobs", <<"5", "a">> >> },
      { <<"numJobs", <<"-">> >> },
      { <<"numJobs", <<"-", "5">> >> },
      { <<"numJobs", <<"9">> >> },
      { <<"numJobs", <<"0">> >> } }

HasKey(map, key) == \E p \in map : p[1] = key

\* map[key]: a missing key reads as the empty string
Lookup(map, key) ==
    IF HasKey(map, key) THEN (CHOOSE p \in map : p[1] = key)[2] ELSE << >>

\* getEnv(key, fallback)
getEnv(e, key, fallback) ==
    IF HasKey(e, key) THEN Lookup(e, key) ELSE fallback

----------------------------------------------------------------------------
(* Derived state *)

\* messages delivered to the callback and not yet acknowledged
Outstanding == {m \in Msgs : pc[m] \notin {"queued", "done"}}

\* time.Since(t)
Since(t) == now - t

\* the exporter's read of the current value
ReadCurrent == numJobs

NoLock == [writer |-> 0, readers |-> {}]

----------------------------------------------------------------------------------------------------------------------------------------
(* The publisher is a separate program; while the worker is examined it    *)
(* is not run.                                                             *)

PublisherOff ==
    /\ ppc = "off"
    /\ args = << >>
    /\ topic = << >>
    /\ batch = [numJobs |-> 0, workDuration |-> 0]
    /\ idx = 0
    /\ scenario = 0

----------------------------------------------------------------------------
(* Initial state of the worker: the process has been started with some     *)
(* environment and main is about to read PROJECT_ID.                       *)

WorkerStart ==
    /\ proc = "checkProject"
    /\ serverUp = FALSE
    /\ updaterUp = FALSE
    /\ now = 0
    /\ tickPending = FALSE
    /\ jobDuration = 0
    /\ lastJobTime = 0
    /\ metricValue = 0
    /\ metricTimeout = 0
    /\ mu = NoLock
    /\ numJobs = 0
    /\ pc = [m \in Msgs |-> "queued"]
    /\ attrs = [m \in Msgs |-> { }]
    /\ jobVal = [m \in Msgs |-> 0]
    /\ startTime = [m \in Msgs |-> 0]
    /\ dpc = "wait"
    /\ lastJob = 0
    /\ timeout = 0
    /\ scraped = 0
    /\ log = << >>

Init ==
    /\ env \in EnvChoices
    /\ WorkerStart
    /\ PublisherOff

----------------------------------------------------------------------------
(* Startup of the worker (main.go 44-97) *)

workerVars == <<now, tickPending, mu, numJobs, pc, attrs, jobVal, startTime,
                dpc, lastJob, timeout, scraped, log>>

\* projectID == "": log.Fatal
CheckProject ==
    /\ proc = "checkProject"
    /\ proc' = IF getEnv(env, "PROJECT_ID", << >>) = << >>
               THEN "fatal" ELSE "checkSubscription"
    /\ UNCHANGED <<bootVars, pubVars, workerVars, jobDuration, lastJobTime,
                   metricValue, metricTimeout>>

\* subscriptionID == "": log.Fatal
CheckSubscription ==
    /\ proc = "checkSubscription"
    /\ proc' = IF getEnv(env, "SUBSCRIPTION_ID", << >>) = << >>
               THEN "fatal" ELSE "configure"
    /\ UNCHANGED <<bootVars, pubVars, workerVars, jobDuration, lastJobTime,
                   metricValue, metricTimeout>>

\* jobDurationSec, _ := strconv.Atoi(getEnv("JOB_DURATION_SEC", "90"))
ConfigJobDuration(e) ==
    Atoi(getEnv(e, "JOB_DURATION_SEC", DefaultJobDurationSec)).val

\* the timeout falls back to the default when Atoi fails
ConfigMetricTimeoutOrDefault(e) ==
    LET r == Atoi(getEnv(e, "METRIC_TIMEOUT_SEC", DefaultMetricTimeoutSec))
    IN  IF r.err THEN Atoi(DefaultMetricTimeoutSec).val ELSE r.val

\* metricTimeoutSec, _ := strconv.Atoi(getEnv("METRIC_TIMEOUT_SEC", "120"))
ConfigMetricTimeout(e) ==
    Atoi(getEnv(e, "METRIC_TIMEOUT_SEC", DefaultMetricTimeoutSec)).val

\* the two durations and state := &globalState{...}
Configure ==
    /\ proc = "configure"
    /\ jobDuration' = ConfigJobDuration(env)
    /\ metricTimeout' = ConfigMetricTimeout(env)
    /\ lastJobTime' = now
    /\ metricValue' = 0
    /\ proc' = "startServer"
    /\ UNCHANGED <<bootVars, pubVars, workerVars>>

\* go func() { ... http.ListenAndServe(":8080", nil) ... }()
StartServer ==
    /\ proc = "startServer"
    /\ serverUp' = TRUE
    /\ proc' = "startUpdater"
    /\ UNCHANGED <<env, updaterUp, pubVars, workerVars, jobDuration,
                   lastJobTime, metricValue, metricTimeout>>

\* go state.metricUpdater()
StartUpdater ==
    /\ proc = "startUpdater"
    /\ updaterUp' = TRUE
    /\ proc' = "newClient"
    /\ UNCHANGED <<env, serverUp, pubVars, workerVars, jobDuration,
                   lastJobTime, metricValue, metricTimeout>>

\* pubsub.NewClient succeeds and main goes on to sub.Receive, or it fails
\* and main ends in log.Fatalf
NewClient ==
    /\ proc = "newClient"
    /\ \E ok \in BOOLEAN : proc' = IF ok THEN "running" ELSE "fatal"
    /\ UNCHANGED <<bootVars, pubVars, workerVars, jobDuration, lastJobTime,
                   metricValue, metricTimeout>>

Startup ==
    \/ CheckProject
    \/ CheckSubscription
    \/ Configure
    \/ StartServer
    \/ StartUpdater
    \/ NewClient

\* the process has not ended
Alive == proc \notin {"fatal", "exited"}

\* the /metrics goroutine is serving
ServerUp == serverUp /\ Alive

\* the metricUpdater goroutine is running
UpdaterUp == updaterUp /\ Alive

----------------------------------------------------------------------------
(* The receive callback of message m (sub.Receive, main.go 100-124) *)

Running == proc = "running"

\* flow control left at a limit no run reaches (line 97 dropped)
AdmitsAlways == TRUE

\* sub.ReceiveSettings.MaxOutstandingMessages: the client's flow control
\* admits a message only while fewer than that many are unacknowledged
Admits == Cardinality(Outstanding) < MaxOutstandingMessages

\* The client delivers the next message and starts its callback.
Fetch(m) ==
    /\ Running
    /\ pc[m] = "queued"
    /\ \A k \in Msgs : k < m => pc[k] # "queued"
    /\ Admits
    /\ \E a \in AttrChoices : attrs' = [attrs EXCEPT ![m] = a]
    /\ pc' = [pc EXCEPT ![m] = "parse"]
    /\ log' = Append(log, <<"fetch", m>>)
    /\ UNCHANGED <<bootVars, pubVars,
                   proc, now, tickPending, jobDuration, lastJobTime,
                   metricValue, metricTimeout, mu, numJobs, jobVal,
                   startTime, dpc, lastJob, timeout, scraped>>

\* the err check dropped: a failed parse leaves ParseFloat's 0
ParsedJobValNoDefault(a) == ParseFloat(Lookup(a, "numJobs")).val

\* jobVal of the callback: the parsed attribute, or 1 when ParseFloat fails
ParsedJobVal(a) ==
    LET r == ParseFloat(Lookup(a, "numJobs"))
    IN  IF r.err THEN DefaultJobVal ELSE r.val

Parse(m) ==
    /\ Running
    /\ pc[m] = "parse"
    /\ jobVal' = [jobVal EXCEPT ![m] = ParsedJobVal(attrs[m])]
    /\ pc' = [pc EXCEPT ![m] = "lock"]
    /\ UNCHANGED <<bootVars, pubVars,
                   proc, now, tickPending, jobDuration, lastJobTime,
                   metricValue, metricTimeout, mu, numJobs, attrs,
                   startTime, dpc, lastJob, timeout, scraped, log>>

\* updateMetric: s.mu.Lock()
UpdLock(m) ==
    /\ Running
    /\ pc[m] = "lock"
    /\ mu.writer = 0
    /\ mu.readers = {}
    /\ mu' = [mu EXCEPT !.writer = m]
    /\ pc' = [pc EXCEPT ![m] = "setTime"]
    /\ UNCHANGED <<bootVars, pubVars,
                   proc, now, tickPending, jobDuration, lastJobTime,
                   metricValue, metricTimeout, numJobs, attrs, jobVal,
                   startTime, dpc, lastJob, timeout, scraped, log>>

\* updateMetric: s.lastJobTime = time.Now()
UpdSetTime(m) ==
    /\ Running
    /\ pc[m] = "setTime"
    /\ lastJobTime' = now
    /\ pc' = [pc EXCEPT ![m] = "setValue"]
    /\ UNCHANGED <<bootVars, pubVars,
                   proc, now, tickPending, jobDuration, metricValue,
                   metricTimeout, mu, numJobs, attrs, jobVal, startTime,
                   dpc, lastJob, timeout, scraped, log>>

\* updateMetric: s.metricValue = value
UpdSetValue(m) ==
    /\ Running
    /\ pc[m] = "setValue"
    /\ metricValue' = jobVal[m]
    /\ pc' = [pc EXCEPT ![m] = "unlock"]
    /\ UNCHANGED <<bootVars, pubVars,
                   proc, now, tickPending, jobDuration, lastJobTime,
                   metricTimeout, mu, numJobs, attrs, jobVal, startTime,
                   dpc, lastJob, timeout, scraped, log>>

\* updateMetric: s.mu.Unlock()
UpdUnlock(m) ==
    /\ Running
    /\ pc[m] = "unlock"
    /\ mu' = [mu EXCEPT !.writer = 0]
    /\ pc' = [pc EXCEPT ![m] = "gaugeSet"]
    /\ UNCHANGED <<bootVars, pubVars,
                   proc, now, tickPending, jobDuration, lastJobTime,
                   metricValue, metricTimeout, numJobs, attrs, jobVal,
                   startTime, dpc, lastJob, timeout, scraped, log>>

\* numJobs.Add(value) in place of numJobs.Set(value)
UpdGaugeAdd(m) ==
    /\ Running
    /\ pc[m] = "gaugeSet"
    /\ numJobs' = numJobs + jobVal[m]
    /\ pc' = [pc EXCEPT ![m] = "startWork"]
    /\ log' = Append(log, <<"ingest", m>>)
    /\ UNCHANGED <<bootVars, pubVars,
                   proc, now, tickPending, jobDuration, lastJobTime,
                   metricValue, metricTimeout, mu, attrs, jobVal,
                   startTime, dpc, lastJob, timeout, scraped>>

\* updateMetric: numJobs.Set(value), after which updateMetric returns
UpdGaugeSet(m) ==
    /\ Running
    /\ pc[m] = "gaugeSet"
    /\ numJobs' = jobVal[m]
    /\ pc' = [pc EXCEPT ![m] = "startWork"]
    /\ log' = Append(log, <<"ingest", m>>)
    /\ UNCHANGED <<bootVars, pubVars,
                   proc, now, tickPending, jobDuration, lastJobTime,
                   metricValue, metricTimeout, mu, attrs, jobVal,
                   startTime, dpc, lastJob, timeout, scraped>>

\* simulateWork: startTime := time.Now()
WorkStart(m) ==
    /\ Running
    /\ pc[m] = "startWork"
    /\ startTime' = [startTime EXCEPT ![m] = now]
    /\ pc' = [pc EXCEPT ![m] = "work"]
    /\ log' = Append(log, <<"work", m>>)
    /\ UNCHANGED <<bootVars, pubVars,
                   proc, now, tickPending, jobDuration, lastJobTime,
                   metricValue, metricTimeout, mu, numJobs, attrs, jobVal,
                   dpc, lastJob, timeout, scraped>>

\* the loop condition inverted
WorkingInverted(m) == pc[m] = "work" /\ Since(startTime[m]) > jobDuration

\* the loop condition never failing
WorkingForever(m) == pc[m] = "work"

\* simulateWork: the loop condition time.Since(startTime) < duration
Working(m) == pc[m] = "work" /\ Since(startTime[m]) < jobDuration

\* simulateWork returns once the loop condition fails
WorkEnd(m) ==
    /\ Running
    /\ pc[m] = "work"
    /\ ~Working(m)
    /\ pc' = [pc EXCEPT ![m] = "ack"]
    /\ log' = Append(log, <<"worked", m>>)
    /\ UNCHANGED <<bootVars, pubVars,
                   proc, now, tickPending, jobDuration, lastJobTime,
                   metricValue, metricTimeout, mu, numJobs, attrs, jobVal,
                   startTime, dpc, lastJob, timeout, scraped>>

\* the callback also stamps lastJobTime when the job is finished
AckTouch(m) ==
    /\ Running
    /\ pc[m] = "ack"
    /\ pc' = [pc EXCEPT ![m] = "done"]
    /\ attrs' = [attrs EXCEPT ![m] = { }]
    /\ jobVal' = [jobVal EXCEPT ![m] = 0]
    /\ startTime' = [startTime EXCEPT ![m] = 0]
    /\ lastJobTime' = now
    /\ log' = Append(log, <<"ack", m>>)
    /\ UNCHANGED <<bootVars, pubVars,
                   proc, now, tickPending, jobDuration, metricValue,
                   metricTimeout, mu, numJobs, dpc, lastJob, timeout,
                   scraped>>

\* msg.Ack(); the callback returns and its locals are gone
Ack(m) ==
    /\ Running
    /\ pc[m] = "ack"
    /\ pc' = [pc EXCEPT ![m] = "done"]
    /\ attrs' = [attrs EXCEPT ![m] = { }]
    /\ jobVal' = [jobVal EXCEPT ![m] = 0]
    /\ startTime' = [startTime EXCEPT ![m] = 0]
    /\ log' = Append(log, <<"ack", m>>)
    /\ UNCHANGED <<bootVars, pubVars,
                   proc, now, tickPending, jobDuration, lastJobTime,
                   metricValue, metricTimeout, mu, numJobs, dpc, lastJob,
                   timeout, scraped>>

----------------------------------------------------------------------------
(* metricUpdater (main.go 156-172) *)

\* for range ticker.C: take the buffered tick
DecayTick ==
    /\ UpdaterUp
    /\ dpc = "wait"
    /\ tickPending
    /\ tickPending' = FALSE
    /\ dpc' = "rlock"
    /\ UNCHANGED <<bootVars, pubVars,
                   proc, now, jobDuration, lastJobTime, metricValue,
                   metricTimeout, mu, numJobs, pc, attrs, jobVal, startTime,
                   lastJob, timeout, scraped, log>>

\* the read lock not waiting for a writer to leave
DecayRLockNoWait ==
    /\ UpdaterUp
    /\ dpc = "rlock"
    /\ mu' = [mu EXCEPT !.readers = @ \cup {"updater"}]
    /\ dpc' = "read"
    /\ UNCHANGED <<bootVars, pubVars,
                   proc, now, tickPending, jobDuration, lastJobTime,
                   metricValue, metricTimeout, numJobs, pc, attrs, jobVal,
                   startTime, lastJob, timeout, scraped, log>>

\* s.mu.RLock()
DecayRLock ==
    /\ UpdaterUp
    /\ dpc = "rlock"
    /\ mu.writer = 0
    /\ mu' = [mu EXCEPT !.readers = @ \cup {"updater"}]
    /\ dpc' = "read"
    /\ UNCHANGED <<bootVars, pubVars,
                   proc, now, tickPending, jobDuration, lastJobTime,
                   metricValue, metricTimeout, numJobs, pc, attrs, jobVal,
                   startTime, lastJob, timeout, scraped, log>>

\* lastJob := s.lastJobTime; timeout := s.metricTimeout
DecayRead ==
    /\ UpdaterUp
    /\ dpc = "read"
    /\ lastJob' = lastJobTime
    /\ timeout' = metricTimeout
    /\ dpc' = "runlock"
    /\ UNCHANGED <<bootVars, pubVars,
                   proc, now, tickPending, jobDuration, lastJobTime,
                   metricValue, metricTimeout, mu, numJobs, pc, attrs,
                   jobVal, startTime, scraped, log>>

\* s.mu.RUnlock()
DecayRUnlock ==
    /\ UpdaterUp
    /\ dpc = "runlock"
    /\ mu' = [mu EXCEPT !.readers = @ \ {"updater"}]
    /\ dpc' = "check"
    /\ UNCHANGED <<bootVars, pubVars,
                   proc, now, tickPending, jobDuration, lastJobTime,
                   metricValue, metricTimeout, numJobs, pc, attrs, jobVal,
                   startTime, lastJob, timeout, scraped, log>>

\* the timeout taken in minutes instead of seconds
IsStaleMinutes(last, limit) == Since(last) > limit * 60

\* the staleness test of metricUpdater on its local copies
IsStale(last, limit) == Since(last) > limit

\* if time.Since(lastJob) > timeout
DecayCheck ==
    /\ UpdaterUp
    /\ dpc = "check"
    /\ dpc' = IF IsStale(lastJob, timeout) THEN "setZero" ELSE "wait"
    /\ lastJob' = IF IsStale(lastJob, timeout) THEN lastJob ELSE 0
    /\ timeout' = IF IsStale(lastJob, timeout) THEN timeout ELSE 0
    /\ UNCHANGED <<bootVars, pubVars,
                   proc, now, tickPending, jobDuration, lastJobTime,
                   metricValue, metricTimeout, mu, numJobs, pc, attrs,
                   jobVal, startTime, scraped, log>>

\* the decay write also stamps lastJobTime
DecaySetZeroTouch ==
    /\ UpdaterUp
    /\ dpc = "setZero"
    /\ numJobs' = 0
    /\ lastJobTime' = now
    /\ dpc' = "wait"
    /\ lastJob' = 0
    /\ timeout' = 0
    /\ UNCHANGED <<bootVars, pubVars,
                   proc, now, tickPending, jobDuration, metricValue,
                   metricTimeout, mu, pc, attrs, jobVal, startTime,
                   scraped, log>>

\* numJobs.Set(0); the iteration ends and its locals are gone
DecaySetZero ==
    /\ UpdaterUp
    /\ dpc = "setZero"
    /\ numJobs' = 0
    /\ dpc' = "wait"
    /\ lastJob' = 0
    /\ timeout' = 0
    /\ UNCHANGED <<bootVars, pubVars,
                   proc, now, tickPending, jobDuration, lastJobTime,
                   metricValue, metricTimeout, mu, pc, attrs, jobVal,
                   startTime, scraped, log>>

----------------------------------------------------------------------------
(* The environment *)

\* the handler reading under state.mu.RLock()
ScrapeLocked ==
    /\ ServerUp
    /\ mu.writer = 0
    /\ scraped' = ReadCurrent
    /\ UNCHANGED <<bootVars, pubVars,
                   proc, now, tickPending, jobDuration, lastJobTime,
                   metricValue, metricTimeout, mu, numJobs, pc, attrs,
                   jobVal, startTime, dpc, lastJob, timeout, log>>

\* promhttp.Handler serves a scrape of /metrics: it renders the gauge
Scrape ==
    /\ ServerUp
    /\ scraped' = ReadCurrent
    /\ UNCHANGED <<bootVars, pubVars,
                   proc, now, tickPending, jobDuration, lastJobTime,
                   metricValue, metricTimeout, mu, numJobs, pc, attrs,
                   jobVal, startTime, dpc, lastJob, timeout, log>>

\* a callback is executing straight-line code (not queued, done or asleep)
Busy(m) == pc[m] \notin {"queued", "done"} /\ ~Working(m)

\* Ten seconds pass and the ticker fires.
Advance ==
    /\ Running
    /\ now < MaxTicks * TickerPeriodSec
    /\ dpc = "wait"
    /\ ~tickPending
    /\ \A m \in Msgs : ~Busy(m)
    /\ now' = now + TickerPeriodSec
    /\ tickPending' = TRUE
    /\ UNCHANGED <<bootVars, pubVars,
                   proc, jobDuration, lastJobTime, metricValue,
                   metricTimeout, mu, numJobs, pc, attrs, jobVal, startTime,
                   dpc, lastJob, timeout, scraped, log>>

\* SIGTERM or SIGINT arrives.  main installs no handler and its context is
\* context.Background(), so the Go runtime ends the process at once.
Signal ==
    /\ Running
    /\ proc' = "exited"
    /\ UNCHANGED <<bootVars, pubVars,
                   now, tickPending, jobDuration, lastJobTime, metricValue,
                   metricTimeout, mu, numJobs, pc, attrs, jobVal, startTime,
                   dpc, lastJob, timeout, scraped, log>>

----------------------------------------------------------------------------

Callback(m) ==
    \/ Fetch(m)
    \/ Parse(m)
    \/ UpdLock(m)
    \/ UpdSetTime(m)
    \/ UpdSetValue(m)
    \/ UpdUnlock(m)
    \/ UpdGaugeSet(m)
    \/ WorkStart(m)
    \/ WorkEnd(m)
    \/ Ack(m)

metricUpdater ==
    \/ DecayTick
    \/ DecayRLock
    \/ DecayRead
    \/ DecayRUnlock
    \/ DecayCheck
    \/ DecaySetZero

Next ==
    \/ Startup
    \/ \E m \in Msgs : Callback(m)
    \/ metricUpdater
    \/ Scrape
    \/ Advance
    \/ Signal

Spec == Init /\ [][Next]_vars

----------------------------------------------------------------------------
(* The worker left to run: no signal arrives, every goroutine that can     *)
(* take a step is eventually scheduled, and time passes.  Only the         *)
(* delivery of a message is not forced: the queue may stay empty.          *)

\* the steps of the callback of message m after its delivery
Handle(m) ==
    \/ Parse(m)
    \/ UpdLock(m)
    \/ UpdSetTime(m)
    \/ UpdSetValue(m)
    \/ UpdUnlock(m)
    \/ UpdGaugeSet(m)
    \/ WorkStart(m)
    \/ WorkEnd(m)
    \/ Ack(m)

LiveNext ==
    \/ Startup
    \/ \E m \in Msgs : Fetch(m)
    \/ \E m \in Msgs : Handle(m)
    \/ metricUpdater
    \/ Scrape
    \/ Advance

LiveSpec ==
    /\ Init
    /\ [][LiveNext]_vars
    /\ WF_vars(Startup)
    /\ WF_vars(\E m \in Msgs : Handle(m))
    /\ WF_vars(metricUpdater)
    /\ WF_vars(Advance)

----------------------------------------------------------------------------
(* The publisher (app/publisher/main.go).  Its os.Args[1:] are the command, *)
(* the project, the topic, the subscription and, for publish, two numbers. *)

\* fmt.Sprintf("%d", n)
RECURSIVE Itoa(_)
Itoa(n) ==
    IF n < 0 THEN <<"-">> \o Itoa(0 - n)
    ELSE IF n < 10 THEN <<DigitChars[n + 1]>>
    ELSE Itoa(n \div 10) \o <<DigitChars[(n % 10) + 1]>>

ArgChoices ==
    {<<"publish", "p", "t", "s", Itoa(n), <<"9", "0">> >> : n \in 0..MaxBatch}
    \cup
    { <<"publish", "p", "t", "s", <<"-", "1">>, <<"9", "0">> >>,
      <<"publish", "p", "t", "s", <<"a", "b", "c">>, <<"9", "0">> >>,
      <<"publish", "p", "t", "s", <<"2">> >>,
      <<"auto", "p", "t", "s">>,
      <<"purge", "p", "t", "s">>,
      <<"drain", "p", "t", "s">>,
      <<"auto", "p", "t">> }

\* the four scenarios with the spike moved last
AutoBatchesReordered == <<9, 3, 7, 15>>

\* runAutoMode's four scenarios: publishBatch(ctx, client, topicID, n, 90)
AutoBatches == <<9, 3, 15, 7>>

AutoWorkDuration == 90

\* json.Marshal of struct{ID int `json:"id"`; Duration string `json:"duration"`}
JobBody(i, d) ==
    <<"{", "\"", "i", "d", "\"", ":">> \o Itoa(i) \o
    <<",", "\"", "d", "u", "r", "a", "t", "i", "o", "n", "\"", ":", "\"">> \o
    Itoa(d) \o <<"s", "\"", "}">>

\* every message carrying what is left of the batch instead of its size
JobMessageRemaining(i, n, d) ==
    [data |-> JobBody(i, d), attrs |-> {<<"numJobs", Itoa(n - i + 1)>>}]

\* the i-th message of publishBatch(numJobs = n, workDuration = d)
JobMessage(i, n, d) ==
    [data |-> JobBody(i, d), attrs |-> {<<"numJobs", Itoa(n)>>}]

\* runAutoMode's last message
DoneMessage ==
    [data |-> <<"D", "O", "N", "E">>, attrs |-> {<<"numJobs", <<"0">> >>}]

workerAll == <<bootVars, proc, jobDuration, lastJobTime, metricValue,
               metricTimeout, workerVars>>

PubInit ==
    /\ env = { }
    /\ WorkerStart
    /\ ppc = "main"
    /\ args \in ArgChoices
    /\ topic = << >>
    /\ batch = [numJobs |-> 0, workDuration |-> 0]
    /\ idx = 0
    /\ scenario = 0

\* main: if len(os.Args) < 5 { printUsage(); return }
PubMain ==
    /\ ppc = "main"
    /\ ppc' = IF Len(args) < 4 THEN "usage" ELSE "newClient"
    /\ UNCHANGED <<workerAll, args, topic, batch, idx, scenario>>

\* main: pubsub.NewClient, log.Fatalf on error
PubNewClient ==
    /\ ppc = "newClient"
    /\ \E ok \in BOOLEAN : ppc' = IF ok THEN "switch" ELSE "fatal"
    /\ UNCHANGED <<workerAll, args, topic, batch, idx, scenario>>

\* main: switch command
PubSwitch ==
    /\ ppc = "switch"
    /\ CASE args[1] = "publish" ->
              IF Len(args) # 6
              THEN ppc' = "usage" /\ batch' = batch
              ELSE IF Atoi(args[5]).err \/ Atoi(args[6]).err
              THEN ppc' = "fatal" /\ batch' = batch
              ELSE /\ ppc' = "getTopic"
                   /\ batch' = [numJobs |-> Atoi(args[5]).val,
                                workDuration |-> Atoi(args[6]).val]
         [] args[1] = "purge" -> ppc' = "purge" /\ batch' = batch
         [] args[1] = "auto" ->
              /\ ppc' = "getTopic"
              /\ batch' = [numJobs |-> AutoBatches[1],
                           workDuration |-> AutoWorkDuration]
         [] OTHER -> ppc' = "usage" /\ batch' = batch
    /\ UNCHANGED <<workerAll, args, topic, idx, scenario>>

\* publishBatch: getOrCreateTopic, log.Fatalf on error; numJobsStr; i := 1
PubGetTopic ==
    /\ ppc = "getTopic"
    /\ \E ok \in BOOLEAN :
           /\ ppc' = IF ok THEN "loop" ELSE "fatal"
           /\ idx' = IF ok THEN 1 ELSE idx
    /\ UNCHANGED <<workerAll, args, topic, batch, scenario>>

\* publishBatch: one iteration of the loop, ending in topic.Publish
PubPublish ==
    /\ ppc = "loop"
    /\ idx <= batch.numJobs
    /\ topic' = Append(topic,
                       JobMessage(idx, batch.numJobs, batch.workDuration))
    /\ idx' = idx + 1
    /\ UNCHANGED <<workerAll, ppc, args, batch, scenario>>

\* publishBatch: the loop ends
PubLoopEnd ==
    /\ ppc = "loop"
    /\ idx > batch.numJobs
    /\ ppc' = "wait"
    /\ idx' = 1
    /\ UNCHANGED <<workerAll, args, topic, batch, scenario>>

\* publishBatch: res.Get for one result; a failure is logged
PubGet ==
    /\ ppc = "wait"
    /\ idx <= batch.numJobs
    /\ idx' = idx + 1
    /\ UNCHANGED <<workerAll, ppc, args, topic, batch, scenario>>

\* publishBatch returns nil, to main or to runAutoMode
PubReturn ==
    /\ ppc = "wait"
    /\ idx > batch.numJobs
    /\ ppc' = IF args[1] = "auto" THEN "sleep" ELSE "done"
    /\ UNCHANGED <<workerAll, args, topic, batch, idx, scenario>>

\* runAutoMode: time.Sleep, then the next scenario or the DONE message
PubSleep ==
    /\ ppc = "sleep"
    /\ scenario' = scenario + 1
    /\ IF scenario' < Len(AutoBatches)
       THEN /\ ppc' = "getTopic"
            /\ batch' = [numJobs |-> AutoBatches[scenario' + 1],
                         workDuration |-> AutoWorkDuration]
       ELSE /\ ppc' = "doneTopic"
            /\ batch' = batch
    /\ UNCHANGED <<workerAll, args, topic, idx>>

\* runAutoMode: getOrCreateTopic before the DONE message
PubDoneTopic ==
    /\ ppc = "doneTopic"
    /\ \E ok \in BOOLEAN : ppc' = IF ok THEN "donePublish" ELSE "fatal"
    /\ UNCHANGED <<workerAll, args, topic, batch, idx, scenario>>

\* runAutoMode: topic.Publish of the DONE message
PubDonePublish ==
    /\ ppc = "donePublish"
    /\ topic' = Append(topic, DoneMessage)
    /\ ppc' = "doneGet"
    /\ UNCHANGED <<workerAll, args, batch, idx, scenario>>

\* runAutoMode: res.Get; an error goes back to main's log.Fatalf
PubDoneGet ==
    /\ ppc = "doneGet"
    /\ \E ok \in BOOLEAN : ppc' = IF ok THEN "done" ELSE "fatal"
    /\ UNCHANGED <<workerAll, args, topic, batch, idx, scenario>>

\* purgeQueue: sub.SeekToTime; an error goes back to main's log.Fatalf
PubPurge ==
    /\ ppc = "purge"
    /\ \E ok \in BOOLEAN : ppc' = IF ok THEN "done" ELSE "fatal"
    /\ UNCHANGED <<workerAll, args, topic, batch, idx, scenario>>

PubNext ==
    \/ PubMain
    \/ PubNewClient
    \/ PubSwitch
    \/ PubGetTopic
    \/ PubPublish
    \/ PubLoopEnd
    \/ PubGet
    \/ PubReturn
    \/ PubSleep
    \/ PubDoneTopic
    \/ PubDonePublish
    \/ PubDoneGet
    \/ PubPurge

PubSpec == PubInit /\ [][PubNext]_vars

----------------------------------------------------------------------------
(* Vocabulary of the properties *)

\* position of the event <<e, m>> in the history, 0 when it has not happened
Pos(e, m) ==
    IF \E i \in 1..Len(log) : log[i] = <<e, m>>
    THEN CHOOSE i \in 1..Len(log) : log[i] = <<e, m>>
    ELSE 0

Happened(e, m) == Pos(e, m) > 0

Before(e1, m1, e2, m2) ==
    Happened(e1, m1) /\ Happened(e2, m2) /\ Pos(e1, m1) < Pos(e2, m2)

\* the step in which updateMetric of message m returns
IngestCompletes(m) == pc[m] = "gaugeSet" /\ pc'[m] = "startWork"

\* an ingest has written lastJobTime and has not yet returned
IngestMidUpdate == \E m \in Msgs : pc[m] \in {"setValue", "unlock", "gaugeSet"}

\* some ingest has returned
SomeIngestDone == \E m \in Msgs : Happened("ingest", m)

\* the step in which the decay task writes 0 to the gauge
DecayZeroes == dpc = "setZero" /\ dpc' = "wait"

\* the step in which one decay check ends, with or without a write
DecayCheckEnds == dpc \in {"check", "setZero"} /\ dpc' = "wait"

\* more than staleAfter has passed since the last ingest wrote its timestamp
Stale == Since(lastJobTime) > metricTimeout

DigitSet == {"0", "1", "2", "3", "4", "5", "6", "7", "8", "9"}

\* s spells a decimal number: an optional sign, then one or more digits
IsNumeral(s) ==
    \E k \in 0..1 :
        /\ Len(s) > k
        /\ k = 1 => s[1] \in {"+", "-"}
        /\ \A i \in (k + 1)..Len(s) : s[i] \in DigitSet

\* the numJobs attribute is absent or does not spell a number
MissingOrMalformed(a) ==
    \/ ~HasKey(a, "numJobs")
    \/ ~IsNumeral(Lookup(a, "numJobs"))

----------------------------------------------------------------------------
(* C1 *)

\* C1: at most one message is outstanding (fetched, not yet acknowledged) in
\* every reachable state, and whenever message N+1 has been fetched the
\* acknowledgment of message N precedes that fetch.
C1_OneOutstanding ==
    /\ Cardinality(Outstanding) <= 1
    /\ \A m \in Msgs :
           (m > 1 /\ Happened("fetch", m)) => Before("ack", m - 1, "fetch", m)

\* the second message is being handled after the first was acknowledged
C1_Witness ==
    /\ pc[2] = "work"
    /\ pc[1] = "done"
    /\ Before("fetch", 1, "ack", 1)

----------------------------------------------------------------------------
(* C2 *)

\* C2: once an ingest has completed, the decay task does not write 0 to the
\* gauge while the time elapsed since that ingest is at most staleAfter.
C2_NoZeroOfFreshValue ==
    [][(DecayZeroes /\ SomeIngestDone /\ ~IngestMidUpdate) => Stale]_vars

----------------------------------------------------------------------------
(* C3 *)

\* C3: the read of the current value in the state in which Ingest(v) has just
\* returned, v >= 0, gives exactly v (no time has passed since the ingest
\* wrote its timestamp); in particular the attribute "9" reads back as 9 and
\* the attribute "0" as 0, whatever was ingested before.
C3_ReadAfterIngest ==
    [][\A m \in Msgs :
          (IngestCompletes(m) /\ jobVal[m] >= 0) =>
              /\ ReadCurrent' = jobVal[m]
              /\ metricValue' = jobVal[m]
              /\ lastJobTime' = now'
              /\ attrs[m] = {<<"numJobs", <<"9">> >>} => ReadCurrent' = 9
              /\ attrs[m] = {<<"numJobs", <<"0">> >>} => ReadCurrent' = 0]_vars

\* the second ingest, of 0, has just returned and reads 0 where an earlier
\* scrape had shown the 9 of the first
C3_Witness ==
    /\ pc[2] = "startWork"
    /\ attrs[2] = {<<"numJobs", <<"0">> >>}
    /\ ReadCurrent = 0
    /\ scraped = 9
    /\ ~Stale

----------------------------------------------------------------------------
(* C4 *)

----------------------------------------------------------------------------
(* C5 *)

\* C5: for a message whose numJobs attribute is missing or does not spell a
\* number, the callback's value is the default 1; the ingest leaves the
\* stored value and the read value at 1, and the callback goes on to its
\* work in a process that is still running.
C5_DefaultOnMalformed ==
    [][\A m \in Msgs :
          MissingOrMalformed(attrs[m]) =>
              /\ (pc[m] = "parse" /\ pc'[m] # "parse") =>
                     (pc'[m] = "lock" /\ jobVal'[m] = 1)
              /\ IngestCompletes(m) =>
                     /\ ReadCurrent' = 1
                     /\ metricValue' = 1
                     /\ proc' = "running"]_vars

\* the attribute "abc" was ingested as 1 and the work is under way
C5_Witness ==
    /\ pc[1] = "work"
    /\ attrs[1] = {<<"numJobs", <<"a", "b", "c">> >>}
    /\ metricValue = 1
    /\ ReadCurrent = 1

----------------------------------------------------------------------------
(* C6 *)

\* C6: the stored value and the exported gauge are non-negative in every
\* reachable state, whatever the numJobs attribute holds.
C6_NonNegative == metricValue >= 0 /\ numJobs >= 0

----------------------------------------------------------------------------
(* C7 *)

\* C7: for every message the ingest returns before the simulated work
\* starts, the work runs for the whole job duration, and the acknowledgment
\* comes only after the work has ended.
C7_IngestWorkAck ==
    \A m \in Msgs :
        /\ Happened("work", m) => Before("ingest", m, "work", m)
        /\ Happened("worked", m) => Before("work", m, "worked", m)
        /\ Happened("ack", m) => Before("worked", m, "ack", m)
        /\ pc[m] \in {"startWork", "work", "ack"} =>
               (metricValue = jobVal[m] /\ Happened("ingest", m))
        /\ pc[m] = "ack" => Since(startTime[m]) >= jobDuration

\* a message has gone through ingest, a work of positive duration and ack
C7_Witness ==
    /\ pc[1] = "done"
    /\ jobDuration > 0
    /\ Before("ingest", 1, "work", 1)
    /\ Before("worked", 1, "ack", 1)

----------------------------------------------------------------------------
(* C8 *)

\* the decay task has decided to write and has not yet written
DecayMidUpdate == dpc = "setZero"

\* C8: in no reachable state are an ingest and a decay check both part-way
\* through their updates of the metric.
C8_ExclusiveWriters == ~(IngestMidUpdate /\ DecayMidUpdate)

----------------------------------------------------------------------------
(* C9 *)

\* C9: with a job duration below staleAfter, the exported gauge equals the
\* job's backlog value in every state from the return of its ingest to the
\* end of its work.
C9_MetricHeldDuringJob ==
    \A m \in Msgs :
        (jobDuration < metricTimeout /\ pc[m] \in {"startWork", "work"}) =>
            numJobs = jobVal[m]

----------------------------------------------------------------------------
(* C10 *)

\* C10: when the process has ended on a cancellation signal, no message is
\* left in flight: the callback running at the signal has finished and has
\* acknowledged its message.
C10_DrainOnSignal == proc = "exited" => Outstanding = {}

----------------------------------------------------------------------------
(* C11 *)

\* a step of the decay task
DecayStep == dpc' # dpc

\* C11: a step of a decay check taken while the read value is 0 leaves the
\* read value, the stored value, the timestamp and the timeout as they were.
C11_DecayIdempotent ==
    [][(DecayStep /\ ReadCurrent = 0) =>
           UNCHANGED <<numJobs, metricValue, lastJobTime, metricTimeout>>]_vars

\* two decay checks at least have found the 9 of the first message stale,
\* and the gauge reads 0
C11_Witness ==
    /\ Happened("ingest", 1)
    /\ metricValue = 9
    /\ ReadCurrent = 0
    /\ Since(lastJobTime) >= metricTimeout + 2 * TickerPeriodSec
    /\ dpc = "wait"
    /\ ~tickPending

----------------------------------------------------------------------------
(* C13 *)

\* C13: when the process has ended in a fatal startup error, the exporter
\* and the decay task have not been started and no message was fetched.
C13_NoPartialOperation ==
    proc = "fatal" => (~serverUp /\ ~updaterUp /\ log = << >>)

----------------------------------------------------------------------------
(* C14 *)

\* C14: while the exporter is serving, its read is enabled whoever holds
\* state.mu, and the lock is held by callbacks and the decay task only.
C14_ScrapeNeverBlocks ==
    ServerUp =>
        /\ ENABLED Scrape
        /\ mu.writer \in {0} \cup Msgs
        /\ mu.readers \subseteq {"updater"}

\* a callback holds the write lock while the exporter has rendered the 9
\* and a further scrape would render something else
C14_Witness ==
    /\ ServerUp
    /\ mu.writer = 2
    /\ scraped = 9
    /\ ReadCurrent # scraped

----------------------------------------------------------------------------
(* C15 *)

\* lastJobTime is of a newer ingest than metricValue
FieldsMixed == \E m \in Msgs : pc[m] = "setValue"

\* C15: whenever a reader holds the read lock or is reading the fields,
\* lastJobTime and metricValue are of the same ingest; the only reader of
\* the fields is the decay task (the exporter reads the gauge only).
C15_FieldsReadAsGroup ==
    ("updater" \in mu.readers \/ dpc = "read") => ~FieldsMixed

\* the decay task reads the fields of a completed ingest while the next
\* callback waits for the lock
C15_Witness ==
    /\ dpc = "read"
    /\ pc[2] = "lock"
    /\ Happened("ingest", 1)
    /\ metricValue = 9

----------------------------------------------------------------------------
(* C16 *)

\* neither an ingest nor a decay check is under way
Quiescent ==
    /\ \A m \in Msgs : pc[m] \notin {"setTime", "setValue", "unlock", "gaugeSet"}
    /\ dpc = "wait"

\* C16: whenever neither an ingest nor a decay check is part-way through,
\* the exported gauge equals the stored metricValue.
C16_GaugeEqualsStored == (Alive /\ Quiescent) => numJobs = metricValue

----------------------------------------------------------------------------
(* C17 *)

\* C17: lastJobTime changes only in the step in which an ingest writes it;
\* when a message is acknowledged it is still the time of that message's
\* ingest, which is the time its work started, not the time it ended.
C17_TimestampOnlyByIngest ==
    [][/\ lastJobTime' # lastJobTime =>
              \E m \in Msgs : pc[m] = "setTime" /\ pc'[m] = "setValue"
       /\ \A m \in Msgs :
              (pc[m] = "ack" /\ pc'[m] = "done") =>
                  lastJobTime' = startTime[m]]_vars

\* a job of positive duration is done, the decay task has since zeroed the
\* gauge, and lastJobTime is still the time of the ingest
C17_Witness ==
    /\ pc[1] = "done"
    /\ pc[2] = "queued"
    /\ jobDuration > 0
    /\ metricValue = 9
    /\ numJobs = 0
    /\ scraped = 0
    /\ lastJobTime > 0
    /\ Since(lastJobTime) > metricTimeout

----------------------------------------------------------------------------
(* C20 *)

\* METRIC_TIMEOUT_SEC is set and does not spell an integer
NonIntegerTimeout(e) ==
    /\ HasKey(e, "METRIC_TIMEOUT_SEC")
    /\ ~IsNumeral(Lookup(e, "METRIC_TIMEOUT_SEC"))

\* C20: with a METRIC_TIMEOUT_SEC that is not an integer, main goes on past
\* its configuration with metricTimeout = 0 (no fatal error, not 120), and
\* every decay check that ends a positive time after the last ingest leaves
\* the gauge at 0.
C20_BadTimeoutIsZero ==
    [][NonIntegerTimeout(env) =>
           /\ proc = "configure" => (proc' = "startServer" /\ metricTimeout' = 0)
           /\ (DecayCheckEnds /\ Since(lastJobTime) > 0) => numJobs' = 0]_vars

\* the 9 of a job still being worked on has been zeroed 10 s after its ingest
C20_Witness ==
    /\ NonIntegerTimeout(env)
    /\ metricTimeout = 0
    /\ Working(1)
    /\ jobVal[1] = 9
    /\ metricValue = 9
    /\ numJobs = 0
    /\ Since(lastJobTime) = TickerPeriodSec

----------------------------------------------------------------------------
(* C12 *)

\* the clock of the model has reached its bound
TimeUp == now >= MaxTicks * TickerPeriodSec

\* the model's clock stopped before the job of message m had run its time
CutShort(m) ==
    TimeUp /\ pc[m] = "work" /\ now - startTime[m] < jobDuration

\* C12: under LiveSpec every fetched message, whatever its attribute and
\* the job duration, is eventually acknowledged with the process still
\* running and the flow control ready to admit the next message (unless
\* the model's clock stops while the job still has time to run).
C12_EveryMessageAcked ==
    \A m \in Msgs :
        (pc[m] \notin {"queued", "done"}) ~>
            ((pc[m] = "done" /\ Running /\ Admits) \/ CutShort(m))

\* a message with a malformed attribute and a job of positive duration has
\* been acknowledged and the next one has been fetched
C12_Witness ==
    /\ pc[1] = "done"
    /\ Happened("fetch", 2)
    /\ jobDuration > 0
    /\ metricValue = 1
    /\ Running

----------------------------------------------------------------------------
(* Vocabulary of the publisher's properties *)

\* s is the base-10 string of the natural number n, as the worker reads it
IsDecimalOf(s, n) ==
    /\ Len(s) >= 1
    /\ \A i \in 1..Len(s) : s[i] \in DigitSet
    /\ Len(s) > 1 => s[1] # "0"
    /\ ParseFloat(s) = [val |-> n, err |-> FALSE]

\* sub occurs in seq
Contains(seq, sub) ==
    \E i \in 1..(Len(seq) - Len(sub) + 1) :
        SubSeq(seq, i, i + Len(sub) - 1) = sub

IdPrefix == <<"{", "\"", "i", "d", "\"", ":">>

\* the body is a JSON object whose first member is "id": <digits>
HasId(data) ==
    /\ Len(data) > 7
    /\ SubSeq(data, 1, 6) = IdPrefix
    /\ data[7] \in DigitSet
    /\ \E j \in 8..Len(data) : data[j] = ","

\* the value of that member
BodyId(data) ==
    LET j == CHOOSE j \in 8..Len(data) :
                 data[j] = "," /\ \A k \in 8..(j - 1) : data[k] # ","
    IN  DigitsVal(SubSeq(data, 7, j - 1))

NumJobsKey == <<"n", "u", "m", "J", "o", "b", "s">>

\* message k of the topic is job id with the backlog n in its attribute only
IsJobMessage(k, id, n) ==
    /\ HasId(topic[k].data)
    /\ BodyId(topic[k].data) = id
    /\ ~Contains(topic[k].data, NumJobsKey)
    /\ \E str \in {p[2] : p \in topic[k].attrs} :
           /\ topic[k].attrs = {<<"numJobs", str>>}
           /\ IsDecimalOf(str, n)

----------------------------------------------------------------------------
(* C18 *)

\* C18: publish with a batch size n >= 0 hands exactly n messages to the
\* topic, message k being job k, each with the attribute numJobs equal to
\* the base-10 string of n and no backlog value in its body.
C18_BatchOfN ==
    (args[1] = "publish" /\ ppc \in {"loop", "wait", "done"}) =>
        /\ ppc = "loop" => Len(topic) = IF batch.numJobs < 0 THEN 0 ELSE idx - 1
        /\ ppc # "loop" => Len(topic) = IF batch.numJobs < 0 THEN 0 ELSE batch.numJobs
        /\ \A k \in 1..Len(topic) : IsJobMessage(k, k, batch.numJobs)

\* a batch of three or more has been handed over and publish has returned
C18_Witness ==
    /\ args[1] = "publish"
    /\ ppc = "done"
    /\ Len(topic) >= 3
    /\ Len(topic) = batch.numJobs

----------------------------------------------------------------------------
(* C19 *)

\* what auto mode is to publish: for each position the batch size in the
\* attribute and the job id in the body
AutoOffset(k) ==
    IF k <= 9 THEN 0 ELSE IF k <= 12 THEN 9 ELSE IF k <= 27 THEN 12 ELSE 27

AutoSize(k) ==
    IF k <= 9 THEN 9 ELSE IF k <= 12 THEN 3 ELSE IF k <= 27 THEN 15 ELSE 7

\* C19: in auto mode the topic always holds a prefix of: 9 jobs marked 9,
\* 3 jobs marked 3, 15 jobs marked 15, 7 jobs marked 7 and one message with
\* numJobs "0"; between two batches it holds exactly the batches so far,
\* and when auto mode has finished it holds all 35.
C19_AutoSequence ==
    args[1] = "auto" =>
        /\ Len(topic) <= 35
        /\ \A k \in 1..Len(topic) :
               IF k <= 34
               THEN IsJobMessage(k, k - AutoOffset(k), AutoSize(k))
               ELSE /\ topic[k].attrs = {<<"numJobs", <<"0">> >>}
                    /\ ~HasId(topic[k].data)
        /\ ppc = "sleep" => Len(topic) = <<9, 12, 27, 34>>[scenario + 1]
        /\ ppc \in {"doneTopic", "donePublish"} => Len(topic) = 34
        /\ ppc = "done" => Len(topic) = 35

\* auto mode has finished with all 35 messages handed over
C19_Witness ==
    /\ args[1] = "auto"
    /\ ppc = "done"
    /\ Len(topic) = 35
    /\ scenario = 4

====
